---- MODULE Spec2Model ----
(***************************************************************************)
(* btrfs-rollback: the run of main() -- mount guard, snapshot discovery,   *)
(* selection list, confirmation, rollback -- as a state machine over the   *)
(* filesystem the external commands act on.                                *)
(*                                                                         *)
(* Text that the code parses (snapshot ids, directory names) is a sequence *)
(* of one-character strings, so that strconv.Atoi is a real parse.         *)
(***************************************************************************)
EXTENDS Integers, Sequences, FiniteSets, TLC

\* ------------------------------------------------------------------ bounds
\* Most entries of <mountpoint>/<snapshots> that Init draws from EntryPool;
\* CatalogSpec draws the ids of up to MaxEntries + 1 snapshots.
MaxEntries == 2
\* Longest run of cursor keys the operator presses in the selection list.
MaxKeys == 2
\* Number of further snapshots, with their directory's number as id, in the
\* long directories of CatalogSpec.
PadLen == 12
\* RollbackSpec invokes Rollback again while fewer commands than this were
\* dispatched.
MaxOps == 5

\* ------------------------------------------------------------ strconv.Atoi
Digits == <<"0", "1", "2", "3", "4", "5", "6", "7", "8", "9">>

IsDigit(c) == \E i \in 1..Len(Digits) : Digits[i] = c

DigitVal(c) == (CHOOSE i \in 1..Len(Digits) : Digits[i] = c) - 1

RECURSIVE DecimalValue(_)
DecimalValue(s) ==
    IF Len(s) = 0 THEN 0
    ELSE 10 * DecimalValue(SubSeq(s, 1, Len(s) - 1)) + DigitVal(s[Len(s)])

\* strconv.Atoi on a short text: an optional sign, then one or more decimal
\* digits; anything else is a syntax error and the value is 0.
Atoi(s) ==
    LET signed == Len(s) > 0 /\ s[1] \in {"+", "-"}
        body   == IF signed THEN Tail(s) ELSE s
    IN  IF Len(body) = 0 \/ \E i \in 1..Len(body) : ~IsDigit(body[i])
        THEN [err |-> TRUE, val |-> 0]
        ELSE [err |-> FALSE,
              val |-> IF s[1] = "-" THEN 0 - DecimalValue(body)
                      ELSE DecimalValue(body)]

\* The decimal text of a number below 100 that has two digits.
Itoa2(n) == <<Digits[(n \div 10) + 1], Digits[(n % 10) + 1]>>

\* ------------------------------------------------------------- sort.Slice
\* The comparison GetSnapshots hands to sort.Slice.
lessMutAscending(a, b) ==
    LET idI == Atoi(a.ID)
        idJ == Atoi(b.ID)
    IN  IF idI.err THEN FALSE
        ELSE IF idJ.err THEN TRUE
        ELSE idI.val < idJ.val

less(a, b) ==
    LET idI == Atoi(a.ID)
        idJ == Atoi(b.ID)
    IN  IF idI.err THEN FALSE
        ELSE IF idJ.err THEN TRUE
        ELSE idI.val > idJ.val

\* One pass of the inner loop of insertion sort: x, appended to the sorted
\* prefix p, is swapped leftwards while it is less than its left neighbour.
RECURSIVE InsertLeftwards(_, _)
InsertLeftwards(p, x) ==
    IF Len(p) > 0 /\ less(x, p[Len(p)])
    THEN Append(InsertLeftwards(SubSeq(p, 1, Len(p) - 1), x), p[Len(p)])
    ELSE Append(p, x)

RECURSIVE InsertionSort(_)
InsertionSort(s) ==
    IF Len(s) = 0 THEN <<>>
    ELSE InsertLeftwards(InsertionSort(SubSeq(s, 1, Len(s) - 1)), s[Len(s)])

\* Every order of the elements s[i], i \in rem, in which no element is less
\* than an earlier one: what an unstable comparison sort may return.
RECURSIVE OrderedArrangements(_, _)
OrderedArrangements(s, rem) ==
    IF rem = {} THEN {<<>>}
    ELSE LET firsts == {s[i] : i \in {k \in rem : \A j \in rem : ~less(s[j], s[k])}}
         IN  UNION {
               LET i == CHOOSE k \in rem : s[k] = v /\ \A j \in rem : s[j] = v => k <= j
               IN  {<<v>> \o t : t \in OrderedArrangements(s, rem \ {i})}
               : v \in firsts}

\* sort.Slice(s, less): the set of slices it may leave.  sort.Slice is
\* documented as not stable.  Go's implementation sorts a slice of at most 12
\* elements by insertion sort alone, which fixes the result; for a longer
\* slice (pattern-defeating quicksort) the order of elements that compare
\* equal is not determined by the program, so every ordered arrangement is a
\* possible result.
SortSlice(s) ==
    IF Len(s) <= 12 THEN {InsertionSort(s)}
    ELSE OrderedArrangements(s, 1..Len(s))

\* ------------------------------------------------------------------ config
\* config.Config.  Dev is a *string: nil is [set |-> FALSE].
NoDev == [set |-> FALSE, val |-> ""]

DefaultConfig ==
    [SubvolMain |-> "@", SubvolSnapshots |-> "@snapshots", Mountpoint |-> "/btrfs",
     Dev |-> NoDev]

\* The configurations a run of Spec starts from: the defaults, and a file that
\* sets the three names and dev, to the empty string or to a device.
Configs ==
    {[DefaultConfig EXCEPT !.Dev = d] :
        d \in {NoDev, [set |-> TRUE, val |-> ""], [set |-> TRUE, val |-> "/dev/sda2"]}}

\* config.Config{}, the zero value.
ZeroConfig == [SubvolMain |-> "", SubvolSnapshots |-> "", Mountpoint |-> "", Dev |-> NoDev]

\* A key of the TOML document: left out, or set to a string.
NoKey == [set |-> FALSE, val |-> ""]

Key(v) == [set |-> TRUE, val |-> v]

\* The documents a config file may hold: each key left out or set.
Documents ==
    [subvol_main : {NoKey, Key("@")},
     subvol_snapshots : {NoKey, Key("@snapshots")},
     mountpoint : {NoKey, Key("/btrfs")},
     dev : {NoKey, Key(""), Key("/dev/sda2")}]

\* The file at the config path: missing, not TOML, or a document.
ConfigFiles ==
    {[state |-> st, doc |-> [subvol_main |-> NoKey, subvol_snapshots |-> NoKey,
                             mountpoint |-> NoKey, dev |-> NoKey]] :
        st \in {"missing", "unparsable"}}
    \cup {[state |-> "ok", doc |-> d] : d \in Documents}

\* The values of --config: the empty path, and a path (the default one).
ConfigPaths == {"", "/etc/btrfs-rollback.toml"}

\* toml.DecodeFile into `var config Config`: the keys of the document are
\* stored, every other field keeps its zero value.
DecodeFile(doc) ==
    [SubvolMain |-> doc.subvol_main.val,
     SubvolSnapshots |-> doc.subvol_snapshots.val,
     Mountpoint |-> doc.mountpoint.val,
     Dev |-> doc.dev]

\* config.ParseConfig
ParseConfig(file) ==
    IF file.state # "ok" THEN DefaultConfig ELSE DecodeFile(file.doc)

\* cmd.loadConfig, where filepath.Abs succeeds.
loadConfig(cfgPath, file) ==
    IF cfgPath # "" THEN ParseConfig(file) ELSE ZeroConfig

\* ------------------------------------------------------------------- paths
\* A path: the configured components, then a parsed component (a snapshot
\* id), then a fixed last part.
Path(dir, entry, leaf) == [dir |-> dir, entry |-> entry, leaf |-> leaf]

NoPath == Path(<<>>, <<>>, "")

\* filepath.Join leaves out the elements that are empty.
Join(elems) == SelectSeq(elems, LAMBDA e : e # "")

subvolMainPath(c) == Path(Join(<<c.Mountpoint, c.SubvolMain>>), <<>>, "")

oldSubvolMainPath(c) == Path(Join(<<c.Mountpoint, c.SubvolMain>>), <<>>, ".old")

snapshotPath(c, snapshotID) ==
    Path(Join(<<c.Mountpoint, c.SubvolSnapshots>>), snapshotID, "snapshot")

\* -------------------------------------------------------------- filesystem
\* What is at a path: nothing, or a subvolume.  "orig" is the main subvolume
\* the run starts with, "stale" a backup left by an earlier rollback, "top"
\* the top-level volume, "snap" a writable snapshot of <snapshots>/of/snapshot.
Subvol(k, of) == [k |-> k, of |-> of]

None == Subvol("none", <<>>)

Present(v) == v.k # "none"

\* The subvolume at <main> or <main>.old in filesystem f, by path.
At(f, p) == IF p.leaf = ".old" THEN f.old ELSE f.main

Put(f, p, v) == IF p.leaf = ".old" THEN [f EXCEPT !.old = v] ELSE [f EXCEPT !.main = v]

\* `btrfs subvolume delete p`; the default subvolume cannot be deleted.
CanDelete(f, p) == Present(At(f, p)) /\ f.def # At(f, p)

DeleteSubvolume(f, p) == Put(f, p, None)

\* `mv src dst`; into an existing directory, mv moves the source inside it.
CanMove(f, src, dst) == Present(At(f, src)) /\ src # dst

Move(f, src, dst) ==
    IF Present(At(f, dst)) THEN Put(f, src, None)
    ELSE Put(Put(f, dst, At(f, src)), src, None)

\* `btrfs subvolume snapshot src dst`; at an existing directory the snapshot
\* is made inside it.
CreateSnapshotMutNothingMade(f, src, dst) == f

CreateSnapshot(f, src, dst) ==
    IF Present(At(f, dst)) THEN f ELSE Put(f, dst, Subvol("snap", src.entry))

\* `btrfs subvolume set-default p`
CanSetDefault(f, p) == Present(At(f, p))

SetDefault(f, p) == [f EXCEPT !.def = At(f, p)]

\* btrfs.Snapshot, as decoded from info.xml.
Snapshot(id, date) ==
    [ID |-> id, Method |-> "single", Date |-> date, DescriptionStr |-> <<>>]

\* One entry of the snapshots directory: its name, whether it is a directory,
\* whether <entry>/snapshot is a subvolume, the state of <entry>/info.xml
\* ("ok", "missing", "bad") and what the file decodes to.
Entry(name, isDir, isSubvol, xml, snap) ==
    [name |-> name, isDir |-> isDir, isSubvol |-> isSubvol, xml |-> xml, snap |-> snap]

OkEntry(name, id, date) == Entry(name, TRUE, TRUE, "ok", Snapshot(id, date))

EntryPool ==
    { OkEntry(<<"1">>, <<"1">>, <<"m", "o", "n">>),
      OkEntry(<<"2">>, <<"2">>, <<"t", "u", "e">>),
      OkEntry(<<"a">>, <<"a">>, <<"w", "e", "d">>),
      OkEntry(<<"5">>, <<"6">>, <<"f", "r", "i">>),
      Entry(<<"f">>, FALSE, FALSE, "missing", Snapshot(<<>>, <<>>)),
      Entry(<<"d">>, TRUE, FALSE, "ok", Snapshot(<<"7">>, <<"t", "h", "u">>)),
      Entry(<<"3">>, TRUE, TRUE, "missing", Snapshot(<<>>, <<>>)),
      Entry(<<"4">>, TRUE, TRUE, "bad", Snapshot(<<>>, <<>>)) }

\* The directories of at most n entries of pool (a directory holds no name
\* twice).
Directories(pool, n) ==
    {d \in SUBSET pool :
        /\ Cardinality(d) <= n
        /\ \A x, y \in d : x.name = y.name => x = y}

\* The ids CatalogSpec writes into info.xml: ids that parse in several ways,
\* and ids that do not parse.
CatalogIds ==
    { <<"5">>, <<"1", "2">>, <<"3">>, <<"0", "5">>, <<"-", "1">>, <<"a">>, <<"b">>, <<>> }

\* The sequences of at most n ids of CatalogIds, no id twice.
IdLists(n) ==
    UNION {{s \in [1..k -> CatalogIds] : \A i, j \in 1..k : s[i] = s[j] => i = j} : k \in 0..n}

\* A directory of snapshots named 10, 11, ...: if not padded, the snapshot of
\* the i-th name has id ids[i]; if padded, the first has its name as id, the
\* next have the ids of ids, and further ones with their name as id follow, to
\* PadLen snapshots that have their name as id.
CatalogDirectory(ids, padded) ==
    LET n == Len(ids) + (IF padded THEN PadLen ELSE 0)
        name(i) == Itoa2(9 + i)
        id(i) == IF ~padded THEN ids[i]
                 ELSE IF 1 < i /\ i <= 1 + Len(ids) THEN ids[i - 1]
                 ELSE name(i)
    IN  {OkEntry(name(i), id(i), name(i)) : i \in 1..n}

\* os.ReadDir returns the entries of the directory sorted by filename.  The
\* characters of the names, in byte order:
ByteOrder == <<"-", "0", "1", "2", "3", "4", "5", "6", "7", "8", "9", "a", "b", "d", "e", "f">>

ByteRank(c) == CHOOSE i \in 1..Len(ByteOrder) : ByteOrder[i] = c

RECURSIVE NameLess(_, _)
NameLess(a, b) ==
    IF Len(b) = 0 THEN FALSE
    ELSE IF Len(a) = 0 THEN TRUE
    ELSE IF a[1] # b[1] THEN ByteRank(a[1]) < ByteRank(b[1])
    ELSE NameLess(Tail(a), Tail(b))

RECURSIVE ReadDir(_)
ReadDir(dir) ==
    IF dir = {} THEN <<>>
    ELSE LET first == CHOOSE e \in dir : \A x \in dir : x = e \/ NameLess(e.name, x.name)
         IN  <<first>> \o ReadDir(dir \ {first})

\* ------------------------------------------------------------------- state
VARIABLES
    dryRun,      \* the --dry-run flag (cmd.dryRun, copied to btrfs.dryRun)
    cfg,         \* cmd.Config()
    mounted,     \* whether the mountpoint has a mount
    probe,       \* what MountSubvol's `mount --grep` gave ("" before it ran)
    fs,          \* [main, old, def]: the subvolumes at <main>, <main>.old, the default
    entries,     \* the entries of the directory <mountpoint>/<snapshots>
    pc,          \* where main() is
    err,         \* the error the last call returned ("" is nil)
    snapshots,   \* the list GetSnapshots returned
    uiIndex,     \* m.list.Index(), from 0
    uiKeys,      \* keys and window sizes the list was sent so far
    uiFilter,    \* the list's filter: whether one is set, and the items it left
    quitting,    \* model.quitting
    snapshotID,  \* the id RunUI returned
    asked,       \* whether Confirm was called
    confirmed,   \* what Confirm returned
    rbPre,       \* fs when Rollback was called
    rbErr,       \* the step whose error Rollback returned ("" is nil)
    out,         \* the dry-run announcements printed, in order
    ops,         \* the mutating commands dispatched, in order
    completed,   \* the ids printed by "Rollback completed using snapshot"
    fatal,       \* the error log.Fatal printed ("" if none)
    exitCode,    \* the exit status, once pc = "exited"
    calls        \* the calls of main that returned, in order, with their error

vars ==
    <<dryRun, cfg, mounted, probe, fs, entries, pc, err, snapshots, uiIndex, uiKeys,
      uiFilter, quitting, snapshotID, asked, confirmed, rbPre, rbErr, out, ops, completed, fatal,
      exitCode, calls>>

envVars == <<dryRun, cfg, entries>>

uiVars == <<uiIndex, uiKeys, uiFilter, quitting, snapshotID>>

rbVars == <<rbPre, rbErr, completed>>

\* list.Model before any filter is set.
Unfiltered == [on |-> FALSE, items |-> <<>>]

\* A call of main that returned, and the error it returned ("" is nil).
Call(fn, e) == [fn |-> fn, err |-> e]

\* The state main() starts in, apart from the filesystem and the flags.
ProcessInit ==
    /\ probe = ""
    /\ err = ""
    /\ snapshots = <<>>
    /\ uiIndex = 0
    /\ uiKeys = 0
    /\ uiFilter = Unfiltered
    /\ quitting = FALSE
    /\ snapshotID = <<>>
    /\ asked = FALSE
    /\ confirmed = FALSE
    /\ rbPre = [main |-> None, old |-> None, def |-> None]
    /\ rbErr = ""
    /\ out = <<>>
    /\ ops = <<>>
    /\ completed = <<>>
    /\ fatal = ""
    /\ exitCode = 0
    /\ calls = <<>>

Init ==
    /\ dryRun \in BOOLEAN
    /\ cfg \in Configs
    /\ mounted \in BOOLEAN
    /\ fs \in [main : {None, Subvol("orig", <<>>)},
               old  : {None, Subvol("stale", <<>>)},
               def  : {Subvol("orig", <<>>), Subvol("top", <<>>)}]
    /\ entries \in Directories(EntryPool, MaxEntries)
    /\ pc = "CheckIfRoot"
    /\ ProcessInit

\* btrfs.dryRun: main calls btrfs.SetDryRun(cmd.DryRun()) before anything else.
btrfsDryRunMutNeverSet == FALSE

btrfsDryRun == dryRun

\* A command that was dispatched, or an action that was announced.
Op(name, src, dst) == [op |-> name, src |-> src, dst |-> dst]

\* os.Exit(code), with what log.Fatal printed before it.
Exit(code, msg) ==
    /\ pc' = "exited"
    /\ exitCode' = code
    /\ fatal' = msg

\* utils.CheckIfRoot
CheckIfRoot ==
    /\ pc = "CheckIfRoot"
    /\ \E euid \in {0, 1000} :
         IF euid # 0
         THEN /\ Exit(1, "")
              /\ UNCHANGED <<err>>
         ELSE /\ pc' = "MountSubvol"
              /\ UNCHANGED <<err, exitCode, fatal>>
    /\ UNCHANGED <<envVars, calls, mounted, probe, fs, snapshots, uiVars, asked, confirmed,
                   rbVars, out, ops>>

\* Must(err), then the statement after it: log.Fatal prints the error and
\* exits with status 1.
Must(next) ==
    IF err # ""
    THEN Exit(1, err)
    ELSE /\ pc' = next
         /\ UNCHANGED <<exitCode, fatal>>

\* --------------------------------------------------------------- MountSubvol
\* probe is what `mount --grep <mountpoint>` gave: an error, no output, or a
\* line; it lists a mount only if there is one.
MountSubvolMutIgnoresProbe ==
    /\ pc = "MountSubvol"
    /\ probe' \in {p \in {"error", "empty", "listed"} : p = "listed" => mounted}
    /\ IF TRUE
       THEN IF cfg.Dev.set /\ cfg.Dev.val # ""
            THEN /\ out' = IF btrfsDryRun
                           THEN Append(out, Op("would-mount",
                                               Path(<<cfg.Dev.val>>, <<>>, ""),
                                               Path(<<cfg.Mountpoint>>, <<>>, "")))
                           ELSE out
                 /\ ops' = Append(ops, Op("mount", Path(<<cfg.Dev.val>>, <<>>, ""),
                                          Path(<<cfg.Mountpoint>>, <<>>, "")))
                 /\ \E ok \in BOOLEAN :
                      /\ mounted' = (mounted \/ ok)
                      /\ err' = IF ok THEN "" ELSE "failed to mount"
            ELSE /\ err' = "device not specified, unable to mount"
                 /\ UNCHANGED <<out, ops, mounted>>
       ELSE /\ err' = ""
            /\ UNCHANGED <<out, ops, mounted>>
    /\ pc' = "MustMount"
    /\ calls' = Append(calls, Call("MountSubvol", err'))
    /\ UNCHANGED <<envVars, fs, snapshots, uiVars, asked, confirmed, rbVars, fatal, exitCode>>

MountSubvol ==
    /\ pc = "MountSubvol"
    /\ probe' \in {p \in {"error", "empty", "listed"} : p = "listed" => mounted}
    /\ IF probe' # "listed"
       THEN IF cfg.Dev.set /\ cfg.Dev.val # ""
            THEN /\ out' = IF btrfsDryRun
                           THEN Append(out, Op("would-mount",
                                               Path(<<cfg.Dev.val>>, <<>>, ""),
                                               Path(<<cfg.Mountpoint>>, <<>>, "")))
                           ELSE out
                 /\ ops' = Append(ops, Op("mount", Path(<<cfg.Dev.val>>, <<>>, ""),
                                          Path(<<cfg.Mountpoint>>, <<>>, "")))
                 /\ \E ok \in BOOLEAN :
                      /\ mounted' = (mounted \/ ok)
                      /\ err' = IF ok THEN "" ELSE "failed to mount"
            ELSE /\ err' = "device not specified, unable to mount"
                 /\ UNCHANGED <<out, ops, mounted>>
       ELSE /\ err' = ""
            /\ UNCHANGED <<out, ops, mounted>>
    /\ pc' = "MustMount"
    /\ calls' = Append(calls, Call("MountSubvol", err'))
    /\ UNCHANGED <<envVars, fs, snapshots, uiVars, asked, confirmed, rbVars, fatal, exitCode>>

MustMountMutIgnoresError ==
    /\ pc = "MustMount"
    /\ pc' = "GetSnapshots"
    /\ UNCHANGED <<exitCode, fatal>>
    /\ UNCHANGED <<envVars, calls, mounted, probe, fs, err, snapshots, uiVars, asked, confirmed,
                   rbVars, out, ops>>

MustMount ==
    /\ pc = "MustMount"
    /\ Must("GetSnapshots")
    /\ UNCHANGED <<envVars, calls, mounted, probe, fs, err, snapshots, uiVars, asked, confirmed,
                   rbVars, out, ops>>

\* -------------------------------------------------------------- GetSnapshots
\* The paths <snapshots>/<entry>/snapshot of the entries es that os.ReadDir
\* gave which are directories and hold a subvolume there, in their order.
RECURSIVE listSubvolumesMutAnyDir(_, _)
listSubvolumesMutAnyDir(c, es) ==
    IF Len(es) = 0 THEN <<>>
    ELSE LET rest  == listSubvolumesMutAnyDir(c, SubSeq(es, 1, Len(es) - 1))
             entry == es[Len(es)]
         IN  IF entry.isDir
             THEN Append(rest, snapshotPath(c, entry.name))
             ELSE rest

RECURSIVE listSubvolumes(_, _)
listSubvolumes(c, es) ==
    IF Len(es) = 0 THEN <<>>
    ELSE LET rest  == listSubvolumes(c, SubSeq(es, 1, Len(es) - 1))
             entry == es[Len(es)]
         IN  IF entry.isDir /\ entry.isSubvol
             THEN Append(rest, snapshotPath(c, entry.name))
             ELSE rest

ZeroSnapshot == [ID |-> <<>>, Method |-> "", Date |-> <<>>, DescriptionStr |-> <<>>]

\* ReadSnapshotInfo: info.xml beside the snapshot at path, decoded.
ReadSnapshotInfo(dir, path) ==
    LET entry == CHOOSE e \in dir : snapshotPath(cfg, e.name) = path
    IN  IF entry.xml = "missing"
        THEN [err |-> "could not read XML file", snap |-> ZeroSnapshot]
        ELSE IF entry.xml = "bad"
        THEN [err |-> "could not unmarshal XML", snap |-> ZeroSnapshot]
        ELSE [err |-> "", snap |-> entry.snap]

\* The loop of GetSnapshots over the paths: the snapshots read, or the first
\* error.
RECURSIVE ReadAll(_, _)
ReadAll(dir, paths) ==
    IF Len(paths) = 0 THEN [err |-> "", snaps |-> <<>>]
    ELSE LET before == ReadAll(dir, SubSeq(paths, 1, Len(paths) - 1))
             info   == ReadSnapshotInfo(dir, paths[Len(paths)])
         IN  IF before.err # "" THEN before
             ELSE IF info.err # "" THEN [err |-> "could not read snapshot info", snaps |-> <<>>]
             ELSE [err |-> "", snaps |-> Append(before.snaps, info.snap)]

GetSnapshots ==
    /\ pc = "GetSnapshots"
    /\ \E readDirOk \in BOOLEAN :
         LET read == ReadAll(entries, listSubvolumes(cfg, ReadDir(entries)))
         IN  IF ~readDirOk
             THEN /\ err' = "failed to list snapshot subvolumes"
                  /\ snapshots' = <<>>
             ELSE IF read.err # ""
             THEN /\ err' = read.err
                  /\ snapshots' = <<>>
             ELSE /\ err' = ""
                  /\ snapshots' \in SortSlice(read.snaps)
    /\ pc' = "MustSnapshots"
    /\ calls' = Append(calls, Call("GetSnapshots", err'))
    /\ UNCHANGED <<envVars, mounted, probe, fs, uiVars, asked, confirmed, rbVars, out, ops,
                   fatal, exitCode>>

MustSnapshots ==
    /\ pc = "MustSnapshots"
    /\ Must("RunUI")
    /\ UNCHANGED <<envVars, calls, mounted, probe, fs, err, snapshots, uiVars, asked, confirmed,
                   rbVars, out, ops>>

\* --------------------------------------------------------------------- RunUI
\* list.VisibleItems, as indexes into the catalog: every item, or the items
\* the filter left.
VisibleItems == IF uiFilter.on THEN uiFilter.items ELSE [i \in 1..Len(snapshots) |-> i]

\* model.Update on a cursor key: the key goes to the list, which moves its
\* cursor within the visible items.
UICursor ==
    /\ pc = "RunUI"
    /\ uiKeys < MaxKeys
    /\ \E key \in {"down", "up"} :
         uiIndex' = IF key = "down"
                    THEN (IF uiIndex + 1 < Len(VisibleItems) THEN uiIndex + 1 ELSE uiIndex)
                    ELSE (IF uiIndex > 0 THEN uiIndex - 1 ELSE uiIndex)
    /\ uiKeys' = uiKeys + 1
    /\ UNCHANGED <<envVars, calls, mounted, probe, fs, pc, err, snapshots, uiFilter, quitting,
                   snapshotID, asked, confirmed, rbVars, out, ops, fatal, exitCode>>

\* The characters typed into the filter.
FilterKeys == {"1", "a"}

\* The items whose FilterValue (snapshotItem.FilterValue, the id) matches a
\* term of the one character c, in the list's order: a one-character term
\* matches the ids that contain it, and ranks all ids of one character alike.
FilterMatches(snaps, c) ==
    SelectSeq([i \in 1..Len(snaps) |-> i],
              LAMBDA i : \E k \in 1..Len(snaps[i].ID) : snaps[i].ID[k] = c)

\* model.Update on "/" and a character of the filter term: the keys go to
\* the list (filtering is on by default, and open to a list with items),
\* which shows the matching items with the cursor on the first.
UIFilter ==
    /\ pc = "RunUI"
    /\ uiKeys < MaxKeys
    /\ Len(snapshots) > 0
    /\ \E c \in FilterKeys :
         uiFilter' = [on |-> TRUE, items |-> FilterMatches(snapshots, c)]
    /\ uiIndex' = 0
    /\ uiKeys' = uiKeys + 1
    /\ UNCHANGED <<envVars, calls, mounted, probe, fs, pc, err, snapshots, quitting, snapshotID,
                   asked, confirmed, rbVars, out, ops, fatal, exitCode>>

\* model.Update on tea.WindowSizeMsg: SetSize, then SetItems with the whole
\* catalog.  The page size changes, and where the cursor then is depends on
\* the list's version; under a filter SetItems empties the filtered items and
\* returns the command that filters again, which Update drops, so the list
\* may show the filtered items or none.
UIResize ==
    /\ pc = "RunUI"
    /\ uiKeys < MaxKeys
    /\ uiFilter' \in {uiFilter} \cup
                     (IF uiFilter.on THEN {[on |-> TRUE, items |-> <<>>]} ELSE {})
    /\ uiIndex' \in {uiIndex} \cup
                    {n \in 0..Len(snapshots) : n < Len(IF uiFilter'.on THEN uiFilter'.items
                                                       ELSE [i \in 1..Len(snapshots) |-> i])}
    /\ uiKeys' = uiKeys + 1
    /\ UNCHANGED <<envVars, calls, mounted, probe, fs, pc, err, snapshots, quitting, snapshotID,
                   asked, confirmed, rbVars, out, ops, fatal, exitCode>>

\* model.Update on "enter" with a catalog that is not empty, then RunUI's
\* return of model.selectedID.
UIEnter ==
    /\ pc = "RunUI"
    /\ Len(snapshots) > 0
    /\ snapshotID' = snapshots[uiIndex + 1].ID
    /\ err' = ""
    /\ pc' = "MustUI"
    /\ calls' = Append(calls, Call("RunUI", err'))
    /\ UNCHANGED <<envVars, mounted, probe, fs, snapshots, uiIndex, uiKeys, uiFilter, quitting,
                   asked, confirmed, rbVars, out, ops, fatal, exitCode>>

\* model.Update on a cancel key sets model.err; RunUI then calls os.Exit(1).
UICancelMutNoExit ==
    /\ pc = "RunUI"
    /\ \E key \in {"ctrl+c", "esc", "q"} :
         /\ quitting' = TRUE
         /\ err' = ""
         /\ pc' = "MustUI"
    /\ UNCHANGED <<envVars, calls, mounted, probe, fs, snapshots, uiIndex, uiKeys, uiFilter,
                   snapshotID, asked, confirmed, rbVars, out, ops, fatal, exitCode>>

UICancel ==
    /\ pc = "RunUI"
    /\ \E key \in {"ctrl+c", "esc", "q"} :
         /\ quitting' = TRUE
         /\ Exit(1, "")
    /\ UNCHANGED <<envVars, calls, mounted, probe, fs, err, snapshots, uiIndex, uiKeys, uiFilter,
                   snapshotID, asked, confirmed, rbVars, out, ops>>

\* p.Run() fails: RunUI returns the error.
UIRunError ==
    /\ pc = "RunUI"
    /\ err' = "tea: program failed"
    /\ pc' = "MustUI"
    /\ calls' = Append(calls, Call("RunUI", err'))
    /\ UNCHANGED <<envVars, mounted, probe, fs, snapshots, uiVars, asked, confirmed, rbVars,
                   out, ops, fatal, exitCode>>

\* Must(err) after RunUI, ui.ClearScreen(), and the test of cmd.DryRun().
MustUIMutInverted ==
    /\ pc = "MustUI"
    /\ Must(IF dryRun THEN "Confirm" ELSE "RollbackDeleteOld")
    /\ UNCHANGED <<envVars, calls, mounted, probe, fs, err, snapshots, uiVars, asked, confirmed,
                   rbVars, out, ops>>

MustUI ==
    /\ pc = "MustUI"
    /\ Must(IF ~dryRun THEN "Confirm" ELSE "RollbackDeleteOld")
    /\ UNCHANGED <<envVars, calls, mounted, probe, fs, err, snapshots, uiVars, asked, confirmed,
                   rbVars, out, ops>>

\* ------------------------------------------------------------------- Confirm
\* strings.ToLower on the one byte read.
ToLower(b) == IF b = "Y" THEN "y" ELSE IF b = "N" THEN "n" ELSE b

\* ui.Confirm: false if the terminal cannot be put in raw mode, else whether
\* the byte read is y or Y.  "^C" is the byte ctrl+c sends in raw mode, "NUL"
\* the buffer when nothing was read.
ConfirmResult(rawOk, b) == rawOk /\ ToLower(b) = "y"

\* main's use of it: anything but true returns from main.
Confirm ==
    /\ pc = "Confirm"
    /\ asked' = TRUE
    /\ \E rawOk \in BOOLEAN, b \in {"y", "Y", "n", "N", "^C", "NUL"} :
         /\ confirmed' = ConfirmResult(rawOk, b)
         /\ IF ~confirmed'
            THEN Exit(0, "")
            ELSE /\ pc' = "RollbackDeleteOld"
                 /\ UNCHANGED <<exitCode, fatal>>
    /\ calls' = Append(calls, Call("Confirm", ""))
    /\ UNCHANGED <<envVars, mounted, probe, fs, err, snapshots, uiVars, rbVars, out, ops>>

\* ------------------------------------------------------------------ Rollback
\* Whether path is <snapshots>/<entry>/snapshot of an entry that holds a
\* subvolume there.
SnapshotSourceExists(path) ==
    \E e \in entries :
        /\ snapshotPath(cfg, e.name) = path
        /\ e.isDir /\ e.isSubvol

\* The outcomes a command may have: it may always fail, and it may succeed
\* only if the filesystem allows it.
Outcomes(possible) == {ok \in BOOLEAN : ok => possible}

\* Step 1: os.Stat(<main>.old), and `btrfs subvolume delete` if it is there.
RollbackDeleteOldMutDryRunSkipsStat ==
    /\ pc = "RollbackDeleteOld"
    /\ rbPre' = fs
    /\ IF Present(At(fs, oldSubvolMainPath(cfg))) /\ ~btrfsDryRun
       THEN IF btrfsDryRun
            THEN /\ out' = Append(out, Op("would-delete", oldSubvolMainPath(cfg), NoPath))
                 /\ pc' = "RollbackMove"
                 /\ UNCHANGED <<ops, fs, rbErr>>
            ELSE /\ ops' = Append(ops, Op("delete", oldSubvolMainPath(cfg), NoPath))
                 /\ \E ok \in Outcomes(CanDelete(fs, oldSubvolMainPath(cfg))) :
                      IF ok
                      THEN /\ fs' = DeleteSubvolume(fs, oldSubvolMainPath(cfg))
                           /\ pc' = "RollbackMove"
                           /\ UNCHANGED rbErr
                      ELSE /\ rbErr' = "delete-old"
                           /\ pc' = "RollbackReturn"
                           /\ UNCHANGED fs
                 /\ UNCHANGED out
       ELSE /\ pc' = "RollbackMove"
            /\ UNCHANGED <<out, ops, fs, rbErr>>
    /\ UNCHANGED <<envVars, calls, mounted, probe, err, snapshots, uiVars, asked, confirmed,
                   completed, fatal, exitCode>>

RollbackDeleteOld ==
    /\ pc = "RollbackDeleteOld"
    /\ rbPre' = fs
    /\ IF Present(At(fs, oldSubvolMainPath(cfg)))
       THEN IF btrfsDryRun
            THEN /\ out' = Append(out, Op("would-delete", oldSubvolMainPath(cfg), NoPath))
                 /\ pc' = "RollbackMove"
                 /\ UNCHANGED <<ops, fs, rbErr>>
            ELSE /\ ops' = Append(ops, Op("delete", oldSubvolMainPath(cfg), NoPath))
                 /\ \E ok \in Outcomes(CanDelete(fs, oldSubvolMainPath(cfg))) :
                      IF ok
                      THEN /\ fs' = DeleteSubvolume(fs, oldSubvolMainPath(cfg))
                           /\ pc' = "RollbackMove"
                           /\ UNCHANGED rbErr
                      ELSE /\ rbErr' = "delete-old"
                           /\ pc' = "RollbackReturn"
                           /\ UNCHANGED fs
                 /\ UNCHANGED out
       ELSE /\ pc' = "RollbackMove"
            /\ UNCHANGED <<out, ops, fs, rbErr>>
    /\ UNCHANGED <<envVars, calls, mounted, probe, err, snapshots, uiVars, asked, confirmed,
                   completed, fatal, exitCode>>

\* Step 2: `mv <main> <main>.old`.
RollbackMoveMutIgnoreError ==
    /\ pc = "RollbackMove"
    /\ IF btrfsDryRun
       THEN /\ out' = Append(out, Op("would-move", subvolMainPath(cfg), oldSubvolMainPath(cfg)))
            /\ UNCHANGED <<ops, fs, rbErr>>
       ELSE /\ ops' = Append(ops, Op("mv", subvolMainPath(cfg), oldSubvolMainPath(cfg)))
            /\ \E ok \in Outcomes(CanMove(fs, subvolMainPath(cfg), oldSubvolMainPath(cfg))) :
                 IF ok
                 THEN /\ fs' = Move(fs, subvolMainPath(cfg), oldSubvolMainPath(cfg))
                      /\ UNCHANGED rbErr
                 ELSE /\ rbErr' = "move-current"
                      /\ UNCHANGED fs
            /\ UNCHANGED out
    /\ pc' = "RollbackSnapshot"
    /\ UNCHANGED <<envVars, calls, mounted, probe, err, snapshots, uiVars, asked, confirmed, rbPre,
                   completed, fatal, exitCode>>

RollbackMoveMutRetry ==
    /\ pc = "RollbackMove"
    /\ IF btrfsDryRun
       THEN /\ out' = Append(out, Op("would-move", subvolMainPath(cfg), oldSubvolMainPath(cfg)))
            /\ pc' = "RollbackSnapshot"
            /\ UNCHANGED <<ops, fs, rbErr>>
       ELSE /\ ops' = IF CanMove(fs, subvolMainPath(cfg), oldSubvolMainPath(cfg))
                   THEN Append(ops, Op("mv", subvolMainPath(cfg), oldSubvolMainPath(cfg)))
                   ELSE ops \o <<Op("mv", subvolMainPath(cfg), oldSubvolMainPath(cfg)),
                                 Op("mv", subvolMainPath(cfg), oldSubvolMainPath(cfg))>>
            /\ \E ok \in Outcomes(CanMove(fs, subvolMainPath(cfg), oldSubvolMainPath(cfg))) :
                 IF ok
                 THEN /\ fs' = Move(fs, subvolMainPath(cfg), oldSubvolMainPath(cfg))
                      /\ pc' = "RollbackSnapshot"
                      /\ UNCHANGED rbErr
                 ELSE /\ rbErr' = "move-current"
                      /\ pc' = "RollbackReturn"
                      /\ UNCHANGED fs
            /\ UNCHANGED out
    /\ UNCHANGED <<envVars, calls, mounted, probe, err, snapshots, uiVars, asked, confirmed, rbPre,
                   completed, fatal, exitCode>>

RollbackMove ==
    /\ pc = "RollbackMove"
    /\ IF btrfsDryRun
       THEN /\ out' = Append(out, Op("would-move", subvolMainPath(cfg), oldSubvolMainPath(cfg)))
            /\ pc' = "RollbackSnapshot"
            /\ UNCHANGED <<ops, fs, rbErr>>
       ELSE /\ ops' = Append(ops, Op("mv", subvolMainPath(cfg), oldSubvolMainPath(cfg)))
            /\ \E ok \in Outcomes(CanMove(fs, subvolMainPath(cfg), oldSubvolMainPath(cfg))) :
                 IF ok
                 THEN /\ fs' = Move(fs, subvolMainPath(cfg), oldSubvolMainPath(cfg))
                      /\ pc' = "RollbackSnapshot"
                      /\ UNCHANGED rbErr
                 ELSE /\ rbErr' = "move-current"
                      /\ pc' = "RollbackReturn"
                      /\ UNCHANGED fs
            /\ UNCHANGED out
    /\ UNCHANGED <<envVars, calls, mounted, probe, err, snapshots, uiVars, asked, confirmed, rbPre,
                   completed, fatal, exitCode>>

\* Step 3: `btrfs subvolume snapshot <snapshots>/<id>/snapshot <main>`.
RollbackSnapshotMutUndo ==
    /\ pc = "RollbackSnapshot"
    /\ IF btrfsDryRun
       THEN /\ out' = Append(out, Op("would-snapshot", snapshotPath(cfg, snapshotID),
                                     subvolMainPath(cfg)))
            /\ pc' = "RollbackSetDefault"
            /\ UNCHANGED <<ops, fs, rbErr>>
       ELSE \E ok \in Outcomes(SnapshotSourceExists(snapshotPath(cfg, snapshotID))) :
                 IF ok
                 THEN /\ ops' = Append(ops, Op("snapshot", snapshotPath(cfg, snapshotID),
                                               subvolMainPath(cfg)))
                      /\ fs' = CreateSnapshot(fs, snapshotPath(cfg, snapshotID),
                                              subvolMainPath(cfg))
                      /\ pc' = "RollbackSetDefault"
                      /\ UNCHANGED <<rbErr, out>>
                 ELSE /\ ops' = ops \o <<Op("snapshot", snapshotPath(cfg, snapshotID),
                                            subvolMainPath(cfg)),
                                         Op("mv", oldSubvolMainPath(cfg), subvolMainPath(cfg))>>
                      /\ fs' = Move(fs, oldSubvolMainPath(cfg), subvolMainPath(cfg))
                      /\ rbErr' = "create-snapshot"
                      /\ pc' = "RollbackReturn"
                      /\ UNCHANGED out
    /\ UNCHANGED <<envVars, calls, mounted, probe, err, snapshots, uiVars, asked, confirmed, rbPre,
                   completed, fatal, exitCode>>

RollbackSnapshot ==
    /\ pc = "RollbackSnapshot"
    /\ IF btrfsDryRun
       THEN /\ out' = Append(out, Op("would-snapshot", snapshotPath(cfg, snapshotID),
                                     subvolMainPath(cfg)))
            /\ pc' = "RollbackSetDefault"
            /\ UNCHANGED <<ops, fs, rbErr>>
       ELSE /\ ops' = Append(ops, Op("snapshot", snapshotPath(cfg, snapshotID),
                                     subvolMainPath(cfg)))
            /\ \E ok \in Outcomes(SnapshotSourceExists(snapshotPath(cfg, snapshotID))) :
                 IF ok
                 THEN /\ fs' = CreateSnapshot(fs, snapshotPath(cfg, snapshotID),
                                              subvolMainPath(cfg))
                      /\ pc' = "RollbackSetDefault"
                      /\ UNCHANGED rbErr
                 ELSE /\ rbErr' = "create-snapshot"
                      /\ pc' = "RollbackReturn"
                      /\ UNCHANGED fs
            /\ UNCHANGED out
    /\ UNCHANGED <<envVars, calls, mounted, probe, err, snapshots, uiVars, asked, confirmed, rbPre,
                   completed, fatal, exitCode>>

\* Step 4: `btrfs subvolume set-default <main>`, then the completion message.
RollbackSetDefaultMutOldPath ==
    /\ pc = "RollbackSetDefault"
    /\ IF btrfsDryRun
       THEN /\ out' = Append(out, Op("would-set-default", subvolMainPath(cfg), NoPath))
            /\ completed' = Append(completed, snapshotID)
            /\ UNCHANGED <<ops, fs, rbErr>>
       ELSE /\ ops' = Append(ops, Op("set-default", oldSubvolMainPath(cfg), NoPath))
            /\ \E ok \in Outcomes(CanSetDefault(fs, oldSubvolMainPath(cfg))) :
                 IF ok
                 THEN /\ fs' = SetDefault(fs, oldSubvolMainPath(cfg))
                      /\ completed' = Append(completed, snapshotID)
                      /\ UNCHANGED rbErr
                 ELSE /\ rbErr' = "set-default"
                      /\ UNCHANGED <<fs, completed>>
            /\ UNCHANGED out
    /\ pc' = "RollbackReturn"
    /\ UNCHANGED <<envVars, calls, mounted, probe, err, snapshots, uiVars, asked, confirmed, rbPre,
                   fatal, exitCode>>

RollbackSetDefault ==
    /\ pc = "RollbackSetDefault"
    /\ IF btrfsDryRun
       THEN /\ out' = Append(out, Op("would-set-default", subvolMainPath(cfg), NoPath))
            /\ completed' = Append(completed, snapshotID)
            /\ UNCHANGED <<ops, fs, rbErr>>
       ELSE /\ ops' = Append(ops, Op("set-default", subvolMainPath(cfg), NoPath))
            /\ \E ok \in Outcomes(CanSetDefault(fs, subvolMainPath(cfg))) :
                 IF ok
                 THEN /\ fs' = SetDefault(fs, subvolMainPath(cfg))
                      /\ completed' = Append(completed, snapshotID)
                      /\ UNCHANGED rbErr
                 ELSE /\ rbErr' = "set-default"
                      /\ UNCHANGED <<fs, completed>>
            /\ UNCHANGED out
    /\ pc' = "RollbackReturn"
    /\ UNCHANGED <<envVars, calls, mounted, probe, err, snapshots, uiVars, asked, confirmed, rbPre,
                   fatal, exitCode>>

\* main after btrfs.Rollback(cfg, snapshotID): the error is not looked at and
\* main returns.
MainReturn ==
    /\ pc = "RollbackReturn"
    /\ Exit(0, "")
    /\ calls' = Append(calls, Call("Rollback", rbErr))
    /\ UNCHANGED <<envVars, mounted, probe, fs, err, snapshots, uiVars, asked, confirmed, rbVars,
                   out, ops>>

Next ==
    \/ CheckIfRoot
    \/ MountSubvol
    \/ MustMount
    \/ GetSnapshots
    \/ MustSnapshots
    \/ UICursor
    \/ UIFilter
    \/ UIResize
    \/ UIEnter
    \/ UICancel
    \/ UIRunError
    \/ MustUI
    \/ Confirm
    \/ RollbackDeleteOld
    \/ RollbackMove
    \/ RollbackSnapshot
    \/ RollbackSetDefault
    \/ MainReturn

Spec == Init /\ [][Next]_vars

\* ------------------------------------------------------------- CatalogSpec
\* GetSnapshots alone, on the directories CatalogDirectory makes of up to
\* MaxEntries + 1 ids, in every order.
CatalogInit ==
    /\ dryRun = FALSE
    /\ cfg = DefaultConfig
    /\ mounted = TRUE
    /\ fs = [main |-> Subvol("orig", <<>>), old |-> None, def |-> Subvol("orig", <<>>)]
    /\ \E ids \in IdLists(MaxEntries + 1), padded \in BOOLEAN :
         entries = CatalogDirectory(ids, padded)
    /\ pc = "GetSnapshots"
    /\ ProcessInit

CatalogNext == GetSnapshots

CatalogSpec == CatalogInit /\ [][CatalogNext]_vars

\* --------------------------------------------------------------- ConfigSpec
\* The run of main() for every --config path and every config file, on one
\* filesystem and the directories of at most one entry.
ConfigInit ==
    /\ dryRun \in BOOLEAN
    /\ \E cfgPath \in ConfigPaths, file \in ConfigFiles : cfg = loadConfig(cfgPath, file)
    /\ mounted \in BOOLEAN
    /\ fs = [main |-> Subvol("orig", <<>>), old |-> Subvol("stale", <<>>),
             def |-> Subvol("orig", <<>>)]
    /\ entries \in Directories(EntryPool, 1)
    /\ pc = "CheckIfRoot"
    /\ ProcessInit

ConfigSpec == ConfigInit /\ [][Next]_vars

\* ------------------------------------------------------------- RollbackSpec
\* Runs of the program one after the other on the same filesystem, each as
\* far as its call of Rollback with dry-run off: the id is one RunUI can
\* return, an id of the catalog GetSnapshots builds.  ops collects the
\* commands of all the runs.
Invoke ==
    /\ pc \in {"Invoke", "RollbackReturn"}
    /\ Len(ops) < MaxOps
    /\ LET read == ReadAll(entries, listSubvolumes(cfg, ReadDir(entries)))
       IN  /\ read.err = ""
           /\ \E i \in 1..Len(read.snaps) : snapshotID' = read.snaps[i].ID
    /\ rbErr' = ""
    /\ pc' = "RollbackDeleteOld"
    /\ UNCHANGED <<envVars, calls, mounted, probe, fs, err, snapshots, uiIndex, uiKeys, uiFilter,
                   quitting, asked, confirmed, rbPre, completed, out, ops, fatal, exitCode>>

RollbackInit ==
    /\ dryRun = FALSE
    /\ cfg = DefaultConfig
    /\ mounted = TRUE
    /\ fs \in [main : {Subvol("orig", <<>>)},
               old  : {None, Subvol("stale", <<>>)},
               def  : {Subvol("orig", <<>>), Subvol("top", <<>>)}]
    /\ entries \in Directories(EntryPool, MaxEntries)
    /\ pc = "Invoke"
    /\ ProcessInit

RollbackNext ==
    \/ Invoke
    \/ RollbackDeleteOld
    \/ RollbackMove
    \/ RollbackSnapshot
    \/ RollbackSetDefault

RollbackSpec == RollbackInit /\ [][RollbackNext]_vars

\* ==================================================================== claims
IsRollbackOp(o) == o.op \in {"delete", "mv", "snapshot", "set-default"}

\* The mutating commands Rollback dispatched, in order.
RollbackOps == SelectSeq(ops, IsRollbackOp)

IsRollbackAnnouncement(o) ==
    o.op \in {"would-delete", "would-move", "would-snapshot", "would-set-default"}

\* What Rollback announced, in order.
RollbackAnnounced == SelectSeq(out, IsRollbackAnnouncement)

OpNames(seq) == [i \in 1..Len(seq) |-> seq[i].op]

InRollback == pc \in {"RollbackMove", "RollbackSnapshot", "RollbackSetDefault", "RollbackReturn"}

\* The commands of a rollback from filesystem state pre, in order.
PlannedCommands(pre) ==
    (IF Present(pre.old) THEN <<"delete">> ELSE <<>>) \o <<"mv", "snapshot", "set-default">>

\* The command whose failure Rollback reports as step.
CommandOf(step) ==
    CASE step = "delete-old" -> "delete"
      [] step = "move-current" -> "mv"
      [] step = "create-snapshot" -> "snapshot"
      [] step = "set-default" -> "set-default"

\* C1: a dry-run Rollback dispatches no delete, move, snapshot or set-default,
\* leaves the filesystem as it found it, returns nil, and has announced
\* delete-old (only if <main>.old exists), move-current, create-snapshot,
\* set-default, in this order, with the paths of the configuration and the
\* chosen id.
C1_DryRunRollbackOnlyAnnounces ==
    dryRun =>
        /\ RollbackOps = <<>>
        /\ InRollback => fs = rbPre
        /\ pc = "RollbackReturn" =>
             /\ rbErr = ""
             /\ RollbackAnnounced =
                  (IF Present(rbPre.old)
                   THEN <<Op("would-delete", oldSubvolMainPath(cfg), NoPath)>>
                   ELSE <<>>)
                  \o <<Op("would-move", subvolMainPath(cfg), oldSubvolMainPath(cfg)),
                       Op("would-snapshot", snapshotPath(cfg, snapshotID), subvolMainPath(cfg)),
                       Op("would-set-default", subvolMainPath(cfg), NoPath)>>

C1_Witness ==
    /\ dryRun
    /\ pc = "RollbackReturn"
    /\ Present(rbPre.old)
    /\ Len(RollbackAnnounced) = 4

\* C2: with dry-run on, a probe that does not list the mountpoint and a
\* device that is set and not empty, MountSubvol announces the mount, does
\* not dispatch it, and returns nil.
C2_DryRunMountOnlyAnnounced ==
    (dryRun /\ pc = "MustMount" /\ probe # "listed" /\ cfg.Dev.set /\ cfg.Dev.val # "") =>
        /\ \E i \in 1..Len(out) : out[i].op = "would-mount"
        /\ \A i \in 1..Len(ops) : ops[i].op # "mount"
        /\ err = ""

\* C3: when a real Rollback for id X returns nil, <main>.old is the subvolume
\* that was at <main> before, a <main>.old that existed before was deleted
\* first, <main> is a snapshot of <snapshots>/X/snapshot and is the default
\* subvolume, and the completion message names X.
C3_SuccessfulRollback ==
    (~dryRun /\ pc = "RollbackReturn" /\ rbErr = "") =>
        /\ Present(rbPre.main)
        /\ fs.old = rbPre.main
        /\ fs.main = Subvol("snap", snapshotID)
        /\ fs.def = fs.main
        /\ completed = <<snapshotID>>
        /\ OpNames(RollbackOps) = PlannedCommands(rbPre)

C3_Witness ==
    /\ ~dryRun
    /\ pc = "RollbackReturn"
    /\ rbErr = ""
    /\ Present(rbPre.old)
    /\ fs.old = Subvol("orig", <<>>)

\* C4: a real Rollback that reports a failed step has returned, and the
\* failed command is the last one it dispatched, after exactly the commands
\* planned before it; when the move failed, no snapshot and no set-default
\* was dispatched, <main> and the default are as before the call, and
\* <main>.old is as before except that an existing one was deleted.
C4_FailFast ==
    (~dryRun /\ rbErr # "") =>
        /\ pc \in {"RollbackReturn", "exited"}
        /\ completed = <<>>
        /\ \E n \in 1..Len(PlannedCommands(rbPre)) :
             /\ OpNames(RollbackOps) = SubSeq(PlannedCommands(rbPre), 1, n)
             /\ PlannedCommands(rbPre)[n] = CommandOf(rbErr)
        /\ rbErr = "move-current" =>
             /\ \A i \in 1..Len(ops) : ops[i].op \notin {"snapshot", "set-default"}
             /\ fs.main = rbPre.main
             /\ fs.def = rbPre.def
             /\ fs.old = IF Present(rbPre.old) THEN None ELSE rbPre.old

C4_Witness ==
    /\ ~dryRun
    /\ pc = "exited"
    /\ rbErr = "move-current"
    /\ Present(rbPre.old)
    /\ Present(rbPre.main)

\* C5: when the snapshot command of a real Rollback failed, then up to the
\* end of the run the previous main subvolume is at <main>.old, nothing is at
\* <main>, the default subvolume is the one from before the call, and the
\* failed snapshot command is the last command dispatched (nothing is undone).
C5_SnapshotFailureState ==
    (~dryRun /\ rbErr = "create-snapshot") =>
        /\ Present(fs.old)
        /\ fs.old = rbPre.main
        /\ fs.main = None
        /\ fs.def = rbPre.def
        /\ ops[Len(ops)].op = "snapshot"

C5_Witness ==
    /\ ~dryRun
    /\ pc = "exited"
    /\ rbErr = "create-snapshot"
    /\ Present(rbPre.old)

MountErrors == {"failed to mount", "device not specified, unable to mount"}

DiscoveryErrors == {"failed to list snapshot subvolumes", "could not read snapshot info"}

\* C6: a run in which MountSubvol, GetSnapshots or Rollback returned an error
\* ends with the error printed and an exit status that is not zero.
C6_FailureExitsNonZero ==
    (pc = "exited" /\ (err \in MountErrors \cup DiscoveryErrors \/ rbErr # "")) =>
        /\ exitCode # 0
        /\ fatal # ""

C8_ConfirmGatesRollback ==
    /\ asked => ~dryRun
    /\ (~dryRun /\ (pc = "RollbackDeleteOld" \/ InRollback \/ RollbackOps # <<>>)) =>
         (asked /\ confirmed)
    /\ (asked /\ ~confirmed) =>
         /\ pc = "exited"
         /\ RollbackOps = <<>>
         /\ RollbackAnnounced = <<>>

C8_Witness ==
    /\ ~dryRun
    /\ asked
    /\ confirmed
    /\ RollbackOps # <<>>

\* The descriptors GetSnapshots read, in discovery order.
Discovered == ReadAll(entries, listSubvolumes(cfg, ReadDir(entries))).snaps

Unparsable(snap) == Atoi(snap.ID).err

Count(seq, x) == Cardinality({i \in 1..Len(seq) : seq[i] = x})

IDs(seq) == [i \in 1..Len(seq) |-> seq[i].ID]

C10_UnparsableKeepDiscoveryOrder ==
    (pc = "MustSnapshots" /\ err = "") =>
        SelectSeq(snapshots, Unparsable) = SelectSeq(Discovered, Unparsable)

\* The entries that are a directory with a subvolume at <entry>/snapshot.
Qualifying == {e \in entries : e.isDir /\ e.isSubvol}

MountOps == SelectSeq(ops, LAMBDA o : o.op = "mount")

MountAnnounced == SelectSeq(out, LAMBDA o : o.op = "would-mount")

\* C12: once MountSubvol has run, it dispatched a mount only if the probe did
\* not list the mountpoint and dev is set and not empty; with the mountpoint
\* listed it returned nil and neither dispatched nor announced anything, in
\* either mode; with the mountpoint not listed and dev nil or empty it
\* returned the error "device not specified" and dispatched no mount.
C12_MountOnlyWhenNeeded ==
    probe # "" =>
        /\ calls[1].fn = "MountSubvol"
        /\ MountOps # <<>> => (probe # "listed" /\ cfg.Dev.set /\ cfg.Dev.val # "")
        /\ probe = "listed" =>
             /\ calls[1].err = ""
             /\ MountOps = <<>>
             /\ MountAnnounced = <<>>
             /\ pc = "MustMount" => (ops = <<>> /\ out = <<>>)
        /\ (probe # "listed" /\ (~cfg.Dev.set \/ cfg.Dev.val = "")) =>
             /\ calls[1].err = "device not specified, unable to mount"
             /\ MountOps = <<>>
             /\ MountAnnounced = <<>>

C12_Witness ==
    /\ pc = "MustMount"
    /\ probe = "listed"
    /\ dryRun
    /\ cfg.Dev.set /\ cfg.Dev.val # ""
    /\ err = ""

\* C13: in the configuration MountSubvol, GetSnapshots and Rollback are
\* called with, SubvolMain, SubvolSnapshots and Mountpoint are not empty.
C13_ConfigFieldsNonEmpty ==
    calls # <<>> =>
        /\ cfg.SubvolMain # ""
        /\ cfg.SubvolSnapshots # ""
        /\ cfg.Mountpoint # ""

\* C14: when set-default of a real Rollback failed, Rollback has returned
\* that error without the completion message, the previous main subvolume is
\* at <main>.old, <main> is a snapshot of <snapshots>/<id>/snapshot for the
\* chosen id, and the default subvolume is the one from before the call.
C14_SetDefaultFailureState ==
    (~dryRun /\ rbErr = "set-default") =>
        /\ pc \in {"RollbackReturn", "exited"}
        /\ completed = <<>>
        /\ Present(rbPre.main)
        /\ fs.old = rbPre.main
        /\ fs.main = Subvol("snap", snapshotID)
        /\ fs.def = rbPre.def
        /\ fs.def # fs.main

C14_Witness ==
    /\ ~dryRun
    /\ rbErr = "set-default"
    /\ pc = "RollbackReturn"
    /\ Present(rbPre.old)
    /\ fs.main = Subvol("snap", <<"2">>)

\* The step of Rollback that a command, or an announcement, belongs to.
StepOf(name) ==
    CASE name \in {"delete", "would-delete"} -> "delete-old"
      [] name \in {"mv", "would-move"} -> "move-current"
      [] name \in {"snapshot", "would-snapshot"} -> "create-snapshot"
      [] name \in {"set-default", "would-set-default"} -> "set-default"

Steps(seq) ==
    [i \in 1..Len(seq) |-> [step |-> StepOf(seq[i].op), src |-> seq[i].src, dst |-> seq[i].dst]]

\* The steps, with their paths, that configuration c, chosen id and the
\* filesystem pre at the time of the call determine.
Plan(c, id, pre) ==
    (IF Present(At(pre, oldSubvolMainPath(c)))
     THEN <<[step |-> "delete-old", src |-> oldSubvolMainPath(c), dst |-> NoPath]>>
     ELSE <<>>)
    \o <<[step |-> "move-current", src |-> subvolMainPath(c), dst |-> oldSubvolMainPath(c)],
         [step |-> "create-snapshot", src |-> snapshotPath(c, id), dst |-> subvolMainPath(c)],
         [step |-> "set-default", src |-> subvolMainPath(c), dst |-> NoPath]>>

\* C15: the steps a dry-run Rollback announced, and the steps a real Rollback
\* dispatched when every command succeeded, are both the plan that the
\* configuration, the chosen id and the filesystem at the time of the call
\* determine -- so for equal inputs the two sequences are equal, step for
\* step and path for path, the stale-backup test included.
C15_DryRunSameDecisions ==
    (pc = "RollbackReturn" /\ (dryRun \/ rbErr = "")) =>
        Steps(IF dryRun THEN RollbackAnnounced ELSE RollbackOps) = Plan(cfg, snapshotID, rbPre)

C15_Witness ==
    /\ ~dryRun
    /\ pc = "RollbackReturn"
    /\ rbErr = ""
    /\ Len(RollbackOps) = 4
    /\ snapshotID = <<"1">>

\* The calls main makes, in order.
ExpectedCalls ==
    IF dryRun THEN <<"MountSubvol", "GetSnapshots", "RunUI", "Rollback">>
    ELSE <<"MountSubvol", "GetSnapshots", "RunUI", "Confirm", "Rollback">>

RollbackStarted ==
    pc = "RollbackDeleteOld" \/ InRollback \/ RollbackOps # <<>> \/ RollbackAnnounced # <<>>

\* C16: the calls that have returned are, in order, a prefix of MountSubvol,
\* GetSnapshots, RunUI, Confirm (with dry-run off only), Rollback, so each is
\* made once; and Rollback is entered, or a step of it dispatched or
\* announced, only after MountSubvol, GetSnapshots and RunUI returned nil,
\* RunUI returned the id of a snapshot of the catalog, and, with dry-run off,
\* Confirm returned true.
C16_PhaseOrder ==
    /\ Len(calls) <= Len(ExpectedCalls)
    /\ \A i \in 1..Len(calls) : calls[i].fn = ExpectedCalls[i]
    /\ Len(MountOps) <= 1
    /\ RollbackStarted =>
         /\ Len(calls) >= (IF dryRun THEN 3 ELSE 4)
         /\ \A i \in 1..3 : calls[i].err = ""
         /\ \E i \in 1..Len(snapshots) : snapshots[i].ID = snapshotID
         /\ ~dryRun => confirmed

C16_Witness ==
    /\ ~dryRun
    /\ pc = "exited"
    /\ Len(calls) = 5
    /\ MountOps # <<>>
    /\ RollbackOps # <<>>

\* C17: no command -- mount, delete, mv, snapshot, set-default -- is
\* dispatched twice in a run, and after a command failed nothing more is
\* dispatched.
C17_EachOperationAtMostOnce ==
    /\ \A i, j \in 1..Len(ops) : ops[i].op = ops[j].op => i = j
    /\ \A i \in 1..Len(calls) :
         (calls[i].fn = "MountSubvol" /\ calls[i].err # "") => Len(ops) <= 1
    /\ rbErr # "" => ops[Len(ops)].op = CommandOf(rbErr)

C17_Witness ==
    /\ pc = "exited"
    /\ OpNames(ops) = <<"mount", "delete", "mv", "snapshot">>
    /\ rbErr = "create-snapshot"

\* C18: at every point of every sequence of Rollback invocations there is a
\* subvolume at <main> or at <main>.old.
C18_MainOrOldAlwaysExists == Present(fs.main) \/ Present(fs.old)

\* The paths listSubvolumes accepts in this run.
AcceptedPaths ==
    LET paths == listSubvolumes(cfg, ReadDir(entries))
    IN  {paths[i] : i \in 1..Len(paths)}

\* C19: the source of every snapshot command Rollback dispatched or announced
\* is one of the paths listSubvolumes accepted.
C19_SourceWasDiscovered ==
    /\ \A i \in 1..Len(ops) : ops[i].op = "snapshot" => ops[i].src \in AcceptedPaths
    /\ \A i \in 1..Len(out) : out[i].op = "would-snapshot" => out[i].src \in AcceptedPaths

\* C20: when RunUI has returned an id, the catalog is not empty, and if the
\* list shows an item under its cursor, the id is that item's.
C20_EnterReturnsShownItem ==
    (pc = "MustUI" /\ err = "") =>
        /\ Len(snapshots) > 0
        /\ uiIndex < Len(VisibleItems) =>
             snapshotID = snapshots[VisibleItems[uiIndex + 1]].ID

====
